---- MODULE Spec2Model ----
(***************************************************************************)
(* A model of dynadojo's complexity measures                               *)
(* (src/src/dynadojo/utils/complexity_measures.py).                        *)
(*                                                                         *)
(* Real numbers are modelled by integers (a fixed-point scale) and the     *)
(* results of divisions by exact fractions [num, den]; a division by zero  *)
(* gives numpy's non-finite values: den = 0 with num = 1 (inf), -1 (-inf)  *)
(* or 0 (nan).  A call of a function of the module is one action: it       *)
(* records the call and its outcome, a returned value or a raised          *)
(* exception.  find_lyapunov_exponents runs its loop one step per action.  *)
(***************************************************************************)
EXTENDS Integers, Sequences, FiniteSets

VARIABLES
    has_neurokit,   \* module flag set by the import at load time
    call,           \* the current call: the function and its arguments
    ret,            \* its outcome: [kind |-> "none" | "return" | "raise", ...]
    calls,          \* the calls made to the external entropy primitive
    i,              \* find_lyapunov_exponents: the loop index
    all_lyap,       \* find_lyapunov_exponents: the per-step contributions
    traj_length     \* find_lyapunov_exponents: the effective trajectory length

vars == <<has_neurokit, call, ret, calls, i, all_lyap, traj_length>>

---------------------------------------------------------------------------
\* Bounds of the model.

\* the longest spectrum given to the derived invariants
MaxLen == 3
\* the longest trajectory of find_lyapunov_exponents
MaxT == 4
\* the longest trajectory given to gp_dim
MaxPts == 4
\* the number of channels of a trajectory given to mse_mv
MaxChan == 3
\* the number of principal components of pca's input
MaxComp == 3
\* the scale of the explained-variance ratios: they sum to VarScale
VarScale == 10

\* the values an exponent of a spectrum takes
ExpVals == {-2, -1, 0, 1, 2}
\* the values a per-step log |r_kk| takes
EstVals == {-1, 0, 1}
\* the dimensions of the model of find_lyapunov_exponents
Dims == {1, 2}
\* the tolerances and minimum point counts of find_lyapunov_exponents
Tols == {1}
MinTpts == {0, 1, 2}
\* the time steps (the median of the differences of tpts)
Dts == {1, 2}
\* the coordinates of a trajectory point given to gp_dim
Coords == {0, 1, 3, 7}
\* the values of a point of a trajectory given to mse_mv
SigVals == {0, 1}
\* the values the entropy primitive returns
EntVals == {1, 2, 3}

SeqsUpTo(S, n) == UNION {[1..k -> S] : k \in 0..n}

---------------------------------------------------------------------------
\* numpy and Python primitives.

Abs(x) == IF x < 0 THEN -x ELSE x

Max(S) == CHOOSE x \in S : \A y \in S : y <= x

Range(s) == {s[k] : k \in 1..Len(s)}

RECURSIVE Sum(_)
Sum(s) == IF s = <<>> THEN 0 ELSE Head(s) + Sum(Tail(s))

\* a[k] with Python's indices: from 0, and from the end when negative
PyAt(a, k) == IF k >= 0 THEN a[k + 1] ELSE a[Len(a) + k + 1]

RECURSIVE Insert(_, _)
Insert(x, s) ==
    IF s = <<>> THEN <<x>>
    ELSE IF x <= Head(s) THEN <<x>> \o s
    ELSE <<Head(s)>> \o Insert(x, Tail(s))

\* np.sort: ascending
RECURSIVE np_sort(_)
np_sort(s) == IF s = <<>> THEN <<>> ELSE Insert(Head(s), np_sort(Tail(s)))

\* a[::-1]
Reversed(s) == [k \in 1..Len(s) |-> s[Len(s) + 1 - k]]

np_cumsum(s) == [k \in 1..Len(s) |-> Sum(SubSeq(s, 1, k))]

\* a / b of numpy floats: a division by zero gives inf, -inf or nan
FDiv(a, b) ==
    IF b # 0 THEN [num |-> IF b > 0 THEN a ELSE -a, den |-> Abs(b)]
    ELSE [num |-> IF a > 0 THEN 1 ELSE IF a < 0 THEN -1 ELSE 0, den |-> 0]

\* k + x for an integer k and a fraction x
FAddInt(k, x) ==
    IF x.den = 0 THEN x ELSE [num |-> k * x.den + x.num, den |-> x.den]

\* the order of finite fractions
FLe(x, y) == x.num * y.den <= y.num * x.den

\* the outcomes of a call
NoneYet == [kind |-> "none"]
Return(v, w) == [kind |-> "return", val |-> v, warned |-> w]
Raise(e) == [kind |-> "raise", exc |-> e]

---------------------------------------------------------------------------
\* The derived invariants of a spectrum.

\* np.max(np.where(cspec >= 0)) raises a ValueError on an empty selection
kaplan_yorke_dimension(spectrum0) ==
    LET spectrum == Reversed(np_sort(spectrum0))
        d == Len(spectrum)
        cspec == np_cumsum(spectrum)
        where == {k \in 0..(d - 1) : cspec[k + 1] >= 0}
    IN  IF where = {} THEN Raise("ValueError")
        ELSE LET j0 == Max(where)
                 warn == j0 > d - 2
                 j == IF warn THEN d - 2 ELSE j0
             IN  Return(FAddInt(1 + j,
                                FDiv(PyAt(cspec, j), Abs(PyAt(spectrum, j + 1)))),
                        warn)

\* the sum without the mask: np.sum(np.array(lyapval))
SumAllEntries(lyapval) == Sum(lyapval)

\* np.sum(np.array(lyapval)[np.array(lyapval) > 0])
SumPositive(lyapval) == Sum(SelectSeq(lyapval, LAMBDA x : x > 0))

\* np.median of a list of one estimate: the estimate
MedianOfOne(estimates) == estimates[1]

pesin(lyapval) ==
    LET all_estimates_pesin == <<SumPositive(lyapval)>>
    IN  Return(MedianOfOne(all_estimates_pesin), FALSE)

\* the scan with >= in place of >
RECURSIVE ScanMaxOrEqual(_, _, _)
ScanMaxOrEqual(rest, max_magnitude_number, max_exp) ==
    IF rest = <<>> THEN max_exp
    ELSE ScanMaxOrEqual(Tail(rest), max_magnitude_number,
                        IF Abs(Head(rest)) >= Abs(max_magnitude_number)
                        THEN <<Head(rest)>> ELSE max_exp)

\* max_exp is bound only by an element after the first whose magnitude
\* exceeds that of the first, which max_magnitude_number keeps naming
RECURSIVE ScanMax(_, _, _)
ScanMax(rest, max_magnitude_number, max_exp) ==
    IF rest = <<>> THEN max_exp
    ELSE ScanMax(Tail(rest), max_magnitude_number,
                 IF Abs(Head(rest)) > Abs(max_magnitude_number)
                 THEN <<Head(rest)>> ELSE max_exp)

find_max_lyapunov(spectrum0) ==
    IF spectrum0 = <<>> THEN Raise("IndexError")
    ELSE LET max_exp == ScanMax(Tail(spectrum0), spectrum0[1], <<>>)
         IN  IF max_exp = <<>> THEN Raise("UnboundLocalError")
             ELSE Return(max_exp[1], FALSE)

---------------------------------------------------------------------------
\* find_lyapunov_exponents.  The Jacobian, the backward Euler update and the
\* QR decomposition of a step are taken by their result, lyap_estimate, the
\* logarithms of the magnitudes of the diagonal of r: any vector of d values.

RECURSIVE InsertF(_, _)
InsertF(x, s) ==
    IF s = <<>> THEN <<x>>
    ELSE IF FLe(x, Head(s)) THEN <<x>> \o s
    ELSE <<Head(s)>> \o InsertF(x, Tail(s))

\* np.sort of an array of quotients: ascending
RECURSIVE np_sort_f(_)
np_sort_f(s) == IF s = <<>> THEN <<>> ELSE InsertF(Head(s), np_sort_f(Tail(s)))

\* the sort without the reversal: np.sort(final_lyap)
SortedAscending(final_lyap) == np_sort_f(final_lyap)

\* np.sort(final_lyap)[::-1]
SortedDescending(final_lyap) == Reversed(np_sort_f(final_lyap))

\* np.min(np.abs(lyap_estimate))
MinAbs(lyap_estimate) ==
    CHOOSE m \in {Abs(x) : x \in Range(lyap_estimate)} :
        \A x \in Range(lyap_estimate) : m <= Abs(x)

\* the test with i >= min_tpts in place of i > min_tpts
EarlyStopFromMinTpts(lyap_estimate, tol, step, min_tpts) ==
    MinAbs(lyap_estimate) < tol /\ step >= min_tpts

\* (np.min(np.abs(lyap_estimate)) < tol) and (i > min_tpts)
EarlyStop(lyap_estimate, tol, step, min_tpts) ==
    MinAbs(lyap_estimate) < tol /\ step > min_tpts

\* np.sum(all_lyap, axis=0) / (dt * traj_length)
FinalLyap(lyaps, d, dt, len) ==
    [k \in 1..d |-> FDiv(Sum([n \in 1..Len(lyaps) |-> lyaps[n][k]]), dt * len)]

InLoop == call.fn = "find_lyapunov_exponents" /\ ret.kind = "none"

\* The call, up to the loop: make_trajectory gives traj_length points, dt
\* is the median of the differences of their times.
Start_find_lyapunov_exponents ==
    /\ call.fn = "none"
    /\ \E d \in Dims, len \in 2..MaxT, dt \in Dts, tol \in Tols, min_tpts \in MinTpts :
           call' = [fn |-> "find_lyapunov_exponents", d |-> d, traj_length |-> len,
                    dt |-> dt, tol |-> tol, min_tpts |-> min_tpts]
           /\ traj_length' = len
    /\ i' = 0
    /\ all_lyap' = <<>>
    /\ UNCHANGED <<has_neurokit, ret, calls>>

\* One iteration of the loop over the points of the trajectory.
LoopStep ==
    /\ InLoop
    /\ i < call.traj_length
    /\ IF i < 1
       THEN UNCHANGED <<all_lyap, traj_length>>
       ELSE \E lyap_estimate \in [1..call.d -> EstVals] :
               /\ all_lyap' = Append(all_lyap, lyap_estimate)
               /\ traj_length' =
                      IF EarlyStop(lyap_estimate, call.tol, i, call.min_tpts)
                      THEN i ELSE traj_length
    /\ i' = i + 1
    /\ UNCHANGED <<has_neurokit, call, ret, calls>>

\* After the loop: the sum over the steps, divided and sorted.
Finish_find_lyapunov_exponents ==
    /\ InLoop
    /\ i = call.traj_length
    /\ ret' = Return(SortedDescending(FinalLyap(all_lyap, call.d, call.dt, traj_length)),
                     FALSE)
    /\ UNCHANGED <<has_neurokit, call, calls, i, all_lyap, traj_length>>

---------------------------------------------------------------------------
\* gp_dim and estimate_powerlaw.  A trajectory is T points of one coordinate,
\* so that the Euclidean distance of two points is exact: |x - y|.

\* cdist(data, y_data).ravel(): row by row
Dists(data, y_data) ==
    [n \in 1..(Len(data) * Len(y_data)) |->
        Abs(data[((n - 1) \div Len(y_data)) + 1] - y_data[((n - 1) % Len(y_data)) + 1])]

\* np.percentile(a, q), linear interpolation between the two nearest ranks,
\* as a fraction of denominator 100; nan for an empty array
np_percentile(a, q) ==
    IF a = <<>> THEN [num |-> 0, den |-> 0]
    ELSE LET sorted == np_sort(a)
             pos == q * (Len(a) - 1)
             lo == (pos \div 100) + 1
             hi == IF lo < Len(a) THEN lo + 1 ELSE lo
         IN  [num |-> 100 * sorted[lo] + (pos % 100) * (sorted[hi] - sorted[lo]),
              den |-> 100]

\* x > p and x < p for a float p: False when p is nan
GtF(x, p) == p.den # 0 /\ x * p.den > p.num
LtF(x, p) == p.den # 0 /\ x * p.den < p.num

\* the sample with both percentiles taken of the positive distances
GpSampleSameSet(data) ==
    LET y_data == data
        rvals0 == Dists(data, y_data)
        rvals1 == SelectSeq(rvals0, LAMBDA r : r > 0)
        p5 == np_percentile(rvals1, 5)
        p50 == np_percentile(rvals1, 50)
    IN  SelectSeq(rvals1, LAMBDA r : GtF(r, p5) /\ LtF(r, p50))

\* the sample gp_dim gives to estimate_powerlaw: each line filters the
\* rvals the line before has left
GpSample(data) ==
    LET y_data == data
        rvals0 == Dists(data, y_data)
        rvals1 == SelectSeq(rvals0, LAMBDA r : r > 0)
        p5 == np_percentile(rvals1, 5)
        rvals2 == SelectSeq(rvals1, LAMBDA r : GtF(r, p5))
        p50 == np_percentile(rvals2, 50)
    IN  SelectSeq(rvals2, LAMBDA r : LtF(r, p50))

\* np.min of an empty array raises a ValueError.  The logarithms are kept
\* as the quotients they are taken of: their sum is 0 exactly when every
\* value is xmin, and n / 0.0 is inf.
estimate_powerlaw(data0) ==
    LET data == np_sort(data0)
    IN  IF data = <<>> THEN Raise("ValueError")
        ELSE LET xmin == data[1]
                 n == Len(data)
                 logsum_zero == \A k \in 1..n : data[k] = xmin
             IN  Return([n |-> n, xmin |-> xmin, data |-> data,
                         finite |-> ~logsum_zero], FALSE)

gp_dim(data) == estimate_powerlaw(GpSample(data))

\* trajectories of at least 2 points
Trajectories == {data \in SeqsUpTo(Coords, MaxPts) : Len(data) >= 2}

---------------------------------------------------------------------------
\* pca.  PCA().fit(data) is taken by its result, explained_variance_ratio_:
\* non-negative ratios in non-increasing order that sum to 1 (VarScale).

\* the comparison with > in place of >=
Exceeds(c, threshold) == c > threshold

\* cumulative_explained_variance >= threshold
Reaches(c, threshold) == c >= threshold

\* np.argmax of an array of booleans: the first True, 0 when there is none
np_argmax(b) ==
    IF \E k \in 1..Len(b) : b[k]
    THEN (CHOOSE k \in 1..Len(b) : b[k] /\ \A m \in 1..(k - 1) : ~b[m]) - 1
    ELSE 0

pca(explained_variance_ratio, threshold) ==
    LET cumulative_explained_variance == np_cumsum(explained_variance_ratio)
        n_components ==
            np_argmax([k \in 1..Len(cumulative_explained_variance) |->
                          Reaches(cumulative_explained_variance[k], threshold)]) + 1
    IN  Return(n_components, FALSE)

VarianceRatios ==
    {r \in SeqsUpTo(0..VarScale, MaxComp) :
        /\ r # <<>>
        /\ Sum(r) = VarScale
        /\ \A k \in 1..(Len(r) - 1) : r[k] >= r[k + 1]}

Thresholds == 1..VarScale

---------------------------------------------------------------------------
\* mse_mv.  neurokit2.entropy_multiscale and standardize_ts are external: a
\* call of the first is recorded with its arguments and the estimate it
\* gives, any value; its parameter signal is required.

\* neurokit2.entropy_multiscale(...)[0]
entropy_multiscale(args, estimate) ==
    IF "signal" \in DOMAIN args THEN Return(estimate, FALSE) ELSE Raise("TypeError")

\* np.median of a list
np_median(a) ==
    LET sorted == np_sort(a)
        n == Len(a)
    IN  IF n % 2 = 1 THEN [num |-> sorted[(n + 1) \div 2], den |-> 1]
        ELSE [num |-> sorted[n \div 2] + sorted[(n \div 2) + 1], den |-> 2]

mmse_opts == [composite |-> TRUE, fuzzy |-> TRUE]

\* a trajectory: a sequence of values (1-D) or a sequence of channels, each
\* a sequence of values (the columns of a T x D array)
Signals == [1..2 -> SigVals]
\* len(traj.shape)
len_shape(traj) == traj.ndim

Trajs1D == {[ndim |-> 1, data |-> x] : x \in Signals}
Trajs2D == {[ndim |-> 2, data |-> x] : x \in SeqsUpTo(Signals, MaxChan) \ {<<>>}}

---------------------------------------------------------------------------
Spectra == SeqsUpTo(ExpVals, MaxLen)

Idle == i = 0 /\ all_lyap = <<>> /\ traj_length = 0

Init ==
    /\ has_neurokit \in BOOLEAN
    /\ call = [fn |-> "none"]
    /\ ret = NoneYet
    /\ calls = <<>>
    /\ Idle

\* A behaviour is one call of one function: the measures are functions of
\* their arguments and keep nothing from one call to the next.
Outcome(fn, arg, out) ==
    /\ call' = [fn |-> fn, arg |-> arg]
    /\ ret' = out

Call_kaplan_yorke_dimension ==
    /\ call.fn = "none"
    /\ \E s \in Spectra :
           Outcome("kaplan_yorke_dimension", s, kaplan_yorke_dimension(s))
    /\ UNCHANGED <<has_neurokit, calls, i, all_lyap, traj_length>>

Call_pesin ==
    /\ call.fn = "none"
    /\ \E s \in Spectra : Outcome("pesin", s, pesin(s))
    /\ UNCHANGED <<has_neurokit, calls, i, all_lyap, traj_length>>

Call_find_max_lyapunov ==
    /\ call.fn = "none"
    /\ \E s \in Spectra : Outcome("find_max_lyapunov", s, find_max_lyapunov(s))
    /\ UNCHANGED <<has_neurokit, calls, i, all_lyap, traj_length>>

Call_gp_dim ==
    /\ call.fn = "none"
    /\ \E data \in Trajectories :
           Outcome("gp_dim", data, gp_dim(data))
    /\ UNCHANGED <<has_neurokit, calls, i, all_lyap, traj_length>>

Call_pca ==
    /\ call.fn = "none"
    /\ \E r \in VarianceRatios, threshold \in Thresholds :
           Outcome("pca", [explained_variance_ratio |-> r, threshold |-> threshold],
                   pca(r, threshold))
    /\ UNCHANGED <<has_neurokit, calls, i, all_lyap, traj_length>>

\* mse_mv without the entropy backend
Call_mse_mv_no_neurokit ==
    /\ call.fn = "none"
    /\ ~has_neurokit
    /\ \/ \E traj \in Trajs1D : Outcome("mse_mv", traj, Raise("Exception"))
       \/ \E traj \in Trajs2D : Outcome("mse_mv", traj, Raise("Exception"))
    /\ UNCHANGED <<has_neurokit, calls, i, all_lyap, traj_length>>

\* mse_mv of a 1-D trajectory: entropy_multiscale is called with dimension
\* and the options only
Call_mse_mv_1d ==
    /\ call.fn = "none"
    /\ has_neurokit
    /\ \E traj \in Trajs1D, estimate \in EntVals :
           /\ len_shape(traj) = 1
           /\ LET args == [dimension |-> 2, composite |-> mmse_opts.composite,
                           fuzzy |-> mmse_opts.fuzzy]
              IN  /\ calls' = <<args>>
                  /\ Outcome("mse_mv", traj, entropy_multiscale(args, estimate))
    /\ UNCHANGED <<has_neurokit, i, all_lyap, traj_length>>

\* mse_mv of a T x D trajectory: one call for each channel of the
\* standardized trajectory, and the median of the estimates
Call_mse_mv_2d ==
    /\ call.fn = "none"
    /\ has_neurokit
    /\ \E traj \in Trajs2D :
           /\ len_shape(traj) # 1
           /\ \E estimates \in [1..Len(traj.data) -> EntVals] :
                  LET args == [k \in 1..Len(traj.data) |->
                                  [signal |-> [standardize_ts |-> traj.data[k]],
                                   dimension |-> 2,
                                   composite |-> mmse_opts.composite,
                                   fuzzy |-> mmse_opts.fuzzy]]
                      all_mse == [k \in 1..Len(traj.data) |->
                                     entropy_multiscale(args[k], estimates[k]).val]
                  IN  /\ calls' = [k \in 1..Len(traj.data) |->
                                      [args |-> args[k], estimate |-> estimates[k]]]
                      /\ Outcome("mse_mv", traj, Return(np_median(all_mse), FALSE))
    /\ UNCHANGED <<has_neurokit, i, all_lyap, traj_length>>

Next ==
    \/ Call_gp_dim
    \/ Call_kaplan_yorke_dimension
    \/ Call_find_max_lyapunov
    \/ Call_pesin
    \/ Call_pca
    \/ Call_mse_mv_no_neurokit
    \/ Call_mse_mv_1d
    \/ Call_mse_mv_2d
    \/ Start_find_lyapunov_exponents
    \/ LoopStep
    \/ Finish_find_lyapunov_exponents

Spec == Init /\ [][Next]_vars

---------------------------------------------------------------------------
\* Claims about the derived invariants.

IsCall(fn) == call.fn = fn /\ ret.kind # "none"

\* two fractions are the same number (or the same non-finite value)
FEq(x, y) ==
    IF x.den = 0 \/ y.den = 0 THEN x.den = 0 /\ y.den = 0 /\ x.num = y.num
    ELSE x.num * y.den = y.num * x.den

Perms(n) == {p \in [1..n -> 1..n] : \A a, b \in 1..n : p[a] = p[b] => a = b}

\* the spectrum in descending order, as a specification of the sort: the
\* rearrangement of s that does not increase
Descending(s) ==
    CHOOSE t \in {[k \in 1..Len(s) |-> s[p[k]]] : p \in Perms(Len(s))} :
        \A k \in 1..(Len(s) - 1) : t[k] >= t[k + 1]

RECURSIVE SumOver(_, _)
SumOver(s, K) ==
    IF K = {} THEN 0
    ELSE LET k == CHOOSE x \in K : TRUE IN s[k] + SumOver(s, K \ {k})

\* C1: for every spectrum of length d >= 2, in any order,
\* kaplan_yorke_dimension returns 1 + j + c[j] / |s[j+1]|, where s is the
\* spectrum in descending order, c its cumulative sums and j the largest
\* index (from 0, at most d - 2) with c[j] >= 0.
C1_KaplanYorkeValue ==
    (IsCall("kaplan_yorke_dimension") /\ Len(call.arg) >= 2) =>
        LET s == Descending(call.arg)
            d == Len(s)
            c == [k \in 0..(d - 1) |-> SumOver(s, 1..(k + 1))]
            J == {k \in 0..(d - 2) : c[k] >= 0}
        IN  /\ ret.kind = "return"
            /\ J # {}
            /\ FEq(ret.val, FAddInt(1 + Max(J), FDiv(c[Max(J)], Abs(s[Max(J) + 2]))))

\* C2: for every spectrum of length d >= 2 whose cumulative sums (of the
\* descending spectrum) have no sign crossing, all of them >= 0 or none of
\* them >= 0, kaplan_yorke_dimension warns and returns a value: it does not
\* raise.
C2_KaplanYorkeNeverAborts ==
    (IsCall("kaplan_yorke_dimension") /\ Len(call.arg) >= 2) =>
        LET s == Descending(call.arg)
            c == [k \in 1..Len(s) |-> SumOver(s, 1..k)]
        IN  ((\A k \in 1..Len(s) : c[k] >= 0) \/ (\A k \in 1..Len(s) : c[k] < 0))
                => (ret.kind = "return" /\ ret.warned)

\* C3: pesin returns the sum of the strictly positive entries of the
\* spectrum (0 when there is none): the result is never negative and is the
\* same for every order of the entries.
C3_PesinSumOfPositive ==
    IsCall("pesin") =>
        LET s == call.arg
        IN  /\ ret.kind = "return"
            /\ ret.val = SumOver(s, {k \in 1..Len(s) : s[k] > 0})
            /\ ret.val >= 0
            /\ \A p \in Perms(Len(s)) :
                   pesin([k \in 1..Len(s) |-> s[p[k]]]).val = ret.val

C3_Witness ==
    IsCall("pesin") /\ call.arg = <<2, -1, 1>> /\ ret.val = 3

\* C4: for every nonempty spectrum find_max_lyapunov returns the exponent of
\* largest absolute magnitude, and the first element when no later element
\* has a strictly larger magnitude.
C4_MaxLyapunovLargestMagnitude ==
    (IsCall("find_max_lyapunov") /\ call.arg # <<>>) =>
        LET s == call.arg
        IN  /\ ret.kind = "return"
            /\ ret.val \in Range(s)
            /\ \A x \in Range(s) : Abs(x) <= Abs(ret.val)
            /\ (\A k \in 2..Len(s) : Abs(s[k]) <= Abs(s[1])) => ret.val = s[1]

---------------------------------------------------------------------------
\* Claims about find_lyapunov_exponents.

Returned(fn) == call.fn = fn /\ ret.kind = "return"

\* C5: for a model of dimension d and a trajectory of at least 2 points,
\* find_lyapunov_exponents returns exactly d values in descending
\* (non-increasing) order, whatever the per-step contributions were and
\* whether or not the early-stop test held.
C5_SpectrumSortedDescending ==
    Returned("find_lyapunov_exponents") =>
        /\ Len(ret.val) = call.d
        /\ \A k \in 1..(Len(ret.val) - 1) : FLe(ret.val[k + 1], ret.val[k])

\* a returned spectrum of two different values, after an early stop
C5_Witness ==
    /\ Returned("find_lyapunov_exponents")
    /\ call.d = 2
    /\ traj_length < call.traj_length
    /\ ~FEq(ret.val[1], ret.val[2])
    /\ all_lyap[1][1] < all_lyap[1][2]

\* C9: once the early-stop test holds at step i the computation stops
\* accumulating: the contributions summed into the returned spectrum are
\* those of steps 1..i, as many as the final effective length the sum is
\* divided by.
C9_StopsAccumulating ==
    (Returned("find_lyapunov_exponents") /\ traj_length # call.traj_length) =>
        /\ Len(all_lyap) = traj_length
        /\ \A k \in 1..call.d :
               FEq(ret.val[k],
                   SortedDescending(FinalLyap(SubSeq(all_lyap, 1, traj_length),
                                              call.d, call.dt, traj_length))[k])

\* C10: the effective trajectory length changes only at a step i > min_tpts
\* whose smallest-magnitude estimate is below tol, and then becomes i; every
\* other step leaves it unchanged; so it is always the requested traj_length
\* or a step index in (min_tpts, T - 1].
C10_StepSetsLength ==
    (InLoop /\ i' = i + 1) =>
        LET fires == /\ i >= 1
                     /\ i > call.min_tpts
                     /\ \E k \in 1..call.d :
                            Abs(all_lyap'[Len(all_lyap')][k]) < call.tol
        IN  /\ fires => traj_length' = i
            /\ ~fires => traj_length' = traj_length

C10_LengthRange ==
    call.fn = "find_lyapunov_exponents" =>
        \/ traj_length = call.traj_length
        \/ /\ traj_length > call.min_tpts
           /\ traj_length >= 1
           /\ traj_length <= call.traj_length - 1

C10_EffectiveLength ==
    /\ [][C10_StepSetsLength]_vars
    /\ [][call.fn = "find_lyapunov_exponents" => traj_length' = traj_length
            \/ (InLoop /\ i' = i + 1)]_vars
    /\ []C10_LengthRange

\* the test held at step 2 of a loop that has gone on
C10_Witness ==
    /\ InLoop
    /\ i = 3
    /\ traj_length = 2
    /\ call.traj_length = 4
    /\ call.min_tpts = 1

---------------------------------------------------------------------------
\* Claims about gp_dim, pca and mse_mv.

\* C6: when the percentile-filtered distance sample is empty (as for a
\* trajectory of 2 identical points) gp_dim returns a NaN or degenerate
\* value: it does not raise.
C6_GpDimEmptySampleReturns ==
    (IsCall("gp_dim") /\ GpSample(call.arg) = <<>>) => ret.kind = "return"

\* C7: pca returns the smallest k in 1..D, counted from 1, for which the
\* first k explained-variance ratios sum to at least the threshold; when the
\* first ratio alone reaches the threshold the result is 1.
C7_PcaFirstToReachThreshold ==
    IsCall("pca") =>
        LET r == call.arg.explained_variance_ratio
            t == call.arg.threshold
        IN  /\ ret.kind = "return"
            /\ ret.val \in 1..Len(r)
            /\ SumOver(r, 1..ret.val) >= t
            /\ \A k \in 1..(ret.val - 1) : SumOver(r, 1..k) < t
            /\ r[1] >= t => ret.val = 1

\* the second component is the one that brings the sum to the threshold
C7_Witness ==
    /\ IsCall("pca")
    /\ call.arg.explained_variance_ratio = <<6, 3, 1>>
    /\ call.arg.threshold = 9
    /\ ret.val = 2

\* C8: with the entropy backend available, mse_mv of a 1-D trajectory
\* standardizes nothing, gives that trajectory as the signal to the entropy
\* primitive with embedding dimension 2 and returns its estimate; for a
\* T x D trajectory it returns the median of the D estimates of the channels.
C8_MseSingleChannel ==
    (has_neurokit /\ IsCall("mse_mv")) =>
        IF call.arg.ndim = 1
        THEN /\ ret.kind = "return"
             /\ Len(calls) = 1
             /\ "signal" \in DOMAIN calls[1]
             /\ calls[1].signal = call.arg.data
             /\ calls[1].dimension = 2
        ELSE /\ ret.kind = "return"
             /\ Len(calls) = Len(call.arg.data)
             /\ \A k \in 1..Len(calls) : calls[k].args.dimension = 2
             /\ FEq(ret.val, np_median([k \in 1..Len(calls) |-> calls[k].estimate]))

---------------------------------------------------------------------------
\* Claims about the sample of gp_dim.

\* the sample estimate_powerlaw was given, in ascending order: the data of
\* its estimate, and the empty sample when its np.min raised
FittedSample == IF ret.kind = "return" THEN ret.val.data ELSE <<>>

\* the strictly positive pairwise distances of the trajectory of the call
PositiveDists == SelectSeq(Dists(call.arg, call.arg), LAMBDA r : r > 0)

\* the distances of a sample above its percentile q / below its percentile q
Above(sample, q) ==
    SelectSeq(sample, LAMBDA r : GtF(r, np_percentile(sample, q)))
Below(sample, q) ==
    SelectSeq(sample, LAMBDA r : LtF(r, np_percentile(sample, q)))

\* C11 as stated: the sample fitted consists of exactly the strictly
\* positive pairwise distances between the 5th and the 50th percentile of
\* the positive distances, both percentiles taken of the same set of
\* positive distances; every value fitted is > 0.
C11_BandOfPositiveDists ==
    IsCall("gp_dim") =>
        /\ FittedSample =
               np_sort(SelectSeq(Above(PositiveDists, 5),
                                 LAMBDA r : LtF(r, np_percentile(PositiveDists, 50))))
        /\ \A r \in Range(FittedSample) : r > 0

\* C11 as amended: the sample fitted consists of exactly the strictly
\* positive pairwise distances above the 5th percentile of the positive
\* distances and below the 50th percentile of the distances that remain
\* above that 5th percentile; every value fitted is > 0.
C11_BandOfRemainingDists ==
    IsCall("gp_dim") =>
        /\ FittedSample = np_sort(Below(Above(PositiveDists, 5), 50))
        /\ \A r \in Range(FittedSample) : r > 0

\* three points whose two readings of the band differ: the median of the
\* positive distances is 2, that of the distances above the 5th percentile
\* is 2.5
C11_Witness ==
    /\ IsCall("gp_dim")
    /\ call.arg = <<0, 1, 3>>
    /\ ret.kind = "return"
    /\ FittedSample = <<2, 2>>

---------------------------------------------------------------------------
\* Claims about the result of find_max_lyapunov that is never assigned.

\* C12: find_max_lyapunov of a nonempty spectrum ends with an unassigned
\* result, an error and no value, exactly when no element after the first
\* has a magnitude strictly greater than that of the first; in every other
\* case it returns a value.
C12_UnassignedExactlyWhenFirstDominates ==
    (IsCall("find_max_lyapunov") /\ call.arg # <<>>) =>
        LET s == call.arg
            none_exceeds == \A k \in 2..Len(s) : ~(Abs(s[k]) > Abs(s[1]))
        IN  /\ none_exceeds <=> ret = [kind |-> "raise", exc |-> "UnboundLocalError"]
            /\ ~none_exceeds <=> ret.kind = "return"

\* a spectrum of several elements whose first has the largest magnitude, as
\* a spectrum in descending order may
C12_Witness ==
    /\ IsCall("find_max_lyapunov")
    /\ call.arg = <<2, 1, -1>>
    /\ ret = [kind |-> "raise", exc |-> "UnboundLocalError"]

====
